---- MODULE Spec2Model ----
(***************************************************************************)
(* The pages of the Sirivaram admin application as state machines over one *)
(* set of variables.  Spec follows the list of a page (Users, Payments,    *)
(* Blogs, Events, Gallery) and its mutations, ViewSpec the search box, the *)
(* debounce and the table pages, FormSpec the create / edit form and the   *)
(* footer form, AuthSpec the persistent storage and the Authorization      *)
(* header, RowsSpec a list of two rows and their mutations, PaySpec the    *)
(* status filter of the payments page and EventSpec its event-payments     *)
(* modal.  The page is chosen in the initial state; every action is one    *)
(* run-to-completion segment of a handler (the code between two awaits),   *)
(* so the event loop interleaves exactly these actions.                    *)
(***************************************************************************)
EXTENDS Integers, Sequences, FiniteSets, TLC

\* ------------------------------------------------------------------ bounds
MaxId == 1        \* rows the backend holds
MaxFetch == 2     \* list fetches in flight at once
MaxMut == 2       \* mutation requests in flight at once
MaxDialogs == 1   \* confirmation dialogs open at once

\* --------------------------------------------------------------- constants
Null == 0         \* the id of an idle busy marker (null in the source)

Pages == {"Users", "Payments", "Blogs", "Events", "Gallery"}

Ids == 1..MaxId

VARIABLES
  pg,               \* which page component this is
  alive,            \* aliveRef.current (Payments has none: mounted or not)
  items,            \* users / payments / items / events: the displayed list
  loading,          \* loading / pageLoading
  firstLoad,        \* firstLoad (Users, Payments, Blogs)
  error,            \* error (Users, Blogs)
  actionLoading,    \* actionLoading {id, action|type} (Users, Payments)
  deleteLoadingId,  \* deleteLoadingId (Blogs, Events, Gallery)
  toggleLoadingId,  \* toggleLoadingId (Blogs)
  dialogs,          \* open Modal.confirm dialogs, each holding its onOk closure
  muts,             \* mutation requests in flight, with the response once sent
  fetches,          \* list GETs in flight, in the order they were issued
  notif,            \* the notification / message shown last
  lastResp,         \* the outcome and body of the list response handled last
  search,           \* search: the text of the search box
  debouncedSearch,  \* debounced of useDebouncedValue
  timers,           \* pending debounce timeouts, each with its captured value
  page,             \* current page of the table
  pageSize,         \* page size of the table
  form,             \* the fields of the create / edit form
  modalOpen,        \* modalOpen (the form is shown)
  saveLoading,      \* saveLoading / saving
  saves,            \* save requests in flight
  token,            \* localStorage "token"
  user,             \* localStorage "user"
  memoHeaders,      \* authHeaders memoised by FooterSettings
  logins,           \* login POSTs in flight
  conts,            \* handlers that will issue a follow-up request
  lastReq,          \* the request issued last: its page and headers
  authEv,           \* what wrote the persistent storage last
  currentStatus,    \* currentStatus: the status filter of the payments page
  memoStatus,       \* the currentStatus held by the handlers of the columns
  shownStatus,      \* the status the list GET applied last was issued with
  selectedEventId,  \* selectedEventId of the event-payments modal
  eventPayments,    \* eventPayments: the rows of the modal
  eventPaymentsLoading,    \* eventPaymentsLoading
  eventPaymentsModalOpen,  \* eventPaymentsModalOpen
  eventReqs         \* by-event GETs in flight, each with its event id

listVars == <<pg, alive, items, loading, firstLoad, error, actionLoading,
              deleteLoadingId, toggleLoadingId, dialogs, muts, fetches,
              notif, lastResp>>

viewVars == <<search, debouncedSearch, timers, page, pageSize>>

formVars == <<form, modalOpen, saveLoading, saves>>

authVars == <<token, user, memoHeaders, logins, conts, lastReq, authEv>>

payVars == <<currentStatus, memoStatus, shownStatus, selectedEventId, eventPayments,
             eventPaymentsLoading, eventPaymentsModalOpen, eventReqs>>

vars == <<listVars, viewVars, formVars, authVars, payVars>>

view == <<items, loading, firstLoad, error, actionLoading, deleteLoadingId,
          toggleLoadingId>>

\* ----------------------------------------------------------------- helpers
Remove(s, i) == [k \in 1..(Len(s) - 1) |-> IF k < i THEN s[k] ELSE s[k + 1]]

IdleAction == [id |-> Null, action |-> "none"]

\* --------------------------------------------------- per-page code facts
\* The mutations a row of the page offers.
Actions(p) ==
  CASE p = "Users" -> {"approve", "reject", "delete"}
    [] p = "Payments" -> {"verify", "reject", "delete"}
    [] p = "Blogs" -> {"delete", "toggle"}
    [] OTHER -> {"delete"}

\* The status a row must show for its approve / reject / verify buttons.
PendingStatus(p) == IF p = "Payments" THEN "PENDING_VERIFICATION" ELSE "PENDING"

\* disabled={!isPending} on approve / reject / verify; delete and the
\* Switch are never disabled.
ControlEnabled(p, a, status) ==
  IF a \in {"approve", "reject", "verify"} THEN status = PendingStatus(p)
  ELSE TRUE

\* Which row controls open Modal.confirm: every one except the Blogs Switch,
\* whose onChange calls toggleActive directly.
NeedsConfirmBypassDelete(p, a) == a \notin {"toggle", "delete"}

NeedsConfirm(p, a) == a # "toggle"

\* The list fetch arms setTimeout(() => controller.abort(), 15000).
HasTimeout(p) == p \in {"Users", "Payments", "Blogs"}

\* The page keeps a firstLoad flag (skeleton until the first fetch ends).
HasFirstLoad(p) == p \in {"Users", "Payments", "Blogs"}

\* fetchX starts with setError("").
ClearsError(p) == p \in {"Users", "Blogs"}

\* The writes of a finished list fetch are behind if (aliveRef.current).
GuardsFetchWrites(p) == p # "Payments"

\* The marker reset in finally is behind if (aliveRef.current).
GuardsMarkerReset(p) == p # "Payments"

\* The success path does `await fetchUsers()`; the other pages call the
\* fetch without awaiting it.
AwaitsReload(p) == p = "Users"

\* How the handler classifies a response.  resp is one of
\*   "ok"      2xx, body without success:false
\*   "okfalse" 2xx, body {success:false}
\*   "http"    non-2xx status
\*   "network" the transport failed
\* axios rejects, and the fetch pages throw, on non-2xx; only Users reads
\* res.data.success.
IsFailure(p, resp) ==
  \/ resp \in {"http", "network"}
  \/ p = "Users" /\ resp = "okfalse"

\* ------------------------------------------------------------ the backend
\* The statuses a row of the page's list can carry.
Statuses(p) ==
  CASE p = "Users" -> {"PENDING", "APPROVED", "REJECTED"}
    [] p = "Payments" -> {"PENDING_VERIFICATION", "VERIFIED", "REJECTED"}
    [] p = "Blogs" -> {"ACTIVE", "INACTIVE"}
    [] OTHER -> {"PRESENT"}

\* The list of the rows that exist in table s (id -> status or "GONE").
ListOf(s) ==
  SelectSeq([i \in 1..MaxId |-> [id |-> i, status |-> s[i]]],
            LAMBDA r : r.status # "GONE")

\* The arrays the list endpoint can return: the backend and its data are
\* not part of the repository, so any table of rows is possible.
Lists(p) == {ListOf(s) : s \in [Ids -> Statuses(p) \cup {"GONE"}]}

\* The body that comes with outcome o of a list GET: an array only with
\* "ok".
Bodies(p, o) == IF o = "ok" THEN Lists(p) ELSE {<<>>}

\* Every body a list GET of some page can come with.
AllBodies == UNION {Bodies(p, o) : p \in Pages, o \in {"ok", "http"}}

\* ------------------------------------------------------------ the display
HasRow(id) == \E k \in 1..Len(items) : items[k].id = id

StatusShown(id) ==
  IF HasRow(id)
  THEN items[CHOOSE k \in 1..Len(items) : items[k].id = id].status
  ELSE "ABSENT"

\* The table is rendered (not the skeleton).
TableShown == ~firstLoad

\* --------------------------------------------------------------- messages
ErrMsg(p, outcome) ==
  CASE outcome = "timeout" /\ p = "Users" -> "Request cancelled"
    [] outcome = "timeout" -> "Request timed out. Please try again."
    [] OTHER -> "Failed to load"

\* ------------------------------------------------------------------- Init
\* The search box, the form and the persistent storage as they are while the
\* list and its mutations are followed.
ViewIdle ==
  /\ search = <<>>
  /\ debouncedSearch = <<>>
  /\ timers = <<>>
  /\ page = 1
  /\ pageSize = 1

FormIdle ==
  /\ form = <<>>
  /\ modalOpen = FALSE
  /\ saveLoading = FALSE
  /\ saves = <<>>

PayIdle ==
  /\ currentStatus = "ALL"
  /\ memoStatus = "ALL"
  /\ shownStatus = "none"
  /\ selectedEventId = Null
  /\ eventPayments = <<>>
  /\ eventPaymentsLoading = FALSE
  /\ eventPaymentsModalOpen = FALSE
  /\ eventReqs = <<>>

AuthIdle ==
  /\ token = "none"
  /\ user = <<>>
  /\ memoHeaders = <<>>
  /\ logins = 0
  /\ conts = <<>>
  /\ lastReq = [page |-> "none", auth |-> <<>>, n |-> 0]
  /\ authEv = "none"

Init ==
  /\ pg \in Pages
  /\ alive = TRUE
  /\ items = <<>>
  /\ loading = TRUE
  /\ firstLoad = HasFirstLoad(pg)
  /\ error = ""
  /\ actionLoading = IdleAction
  /\ deleteLoadingId = Null
  /\ toggleLoadingId = Null
  /\ dialogs = <<>>
  /\ muts = <<>>
  /\ fetches = <<[superseded |-> FALSE, awaited |-> FALSE]>>
  /\ notif = "none"
  /\ lastResp = [outcome |-> "none", body |-> <<>>, awaited |-> FALSE]
  /\ ViewIdle
  /\ FormIdle
  /\ AuthIdle
  /\ PayIdle

\* --------------------------------------------------------- fetch (prefix)
\* The synchronous prefix of fetchUsers / fetchPayments / fetchItems /
\* fetchEvents: setLoading(true), setError(""), and the GET leaves.
StartFetch(aw) ==
  /\ Len(fetches) < MaxFetch
  /\ loading' = TRUE
  /\ error' = IF ClearsError(pg) THEN "" ELSE error
  /\ fetches' = Append([k \in 1..Len(fetches) |->
                          [fetches[k] EXCEPT !.superseded = TRUE]],
                       [superseded |-> FALSE, awaited |-> aw])

\* The Refresh button, which takes no click while it shows loading, and the
\* Try Again button of the error alert.
Refresh ==
  /\ alive
  /\ ~loading \/ error # ""
  /\ Len(fetches) + Len(muts) < MaxFetch  \* room is kept for the reload of
                                          \* every mutation in flight
  /\ StartFetch(FALSE)
  /\ UNCHANGED <<pg, alive, items, firstLoad, actionLoading,
                 deleteLoadingId, toggleLoadingId, dialogs, muts, notif>>
  /\ UNCHANGED <<lastResp, viewVars, formVars, authVars, payVars>>

\* The effect cleanups: aliveRef.current = false, and useDebouncedValue
\* clears its timeout.
Unmount ==
  /\ alive
  /\ alive' = FALSE
  /\ timers' = <<>>
  /\ UNCHANGED <<pg, items, loading, firstLoad, error, actionLoading,
                 deleteLoadingId, toggleLoadingId, dialogs, muts, fetches,
                 notif>>
  /\ UNCHANGED <<lastResp, search, debouncedSearch, page, pageSize, formVars,
                 authVars, payVars>>

\* ------------------------------------------------------ mutation (prefix)
\* A page that keeps a marker of its own for deletes beside actionLoading.
SetMarkerPerKind(p, id, a) ==
  /\ actionLoading' = IF p \in {"Users", "Payments"}
                      THEN [id |-> id, action |-> a] ELSE actionLoading
  /\ deleteLoadingId' = IF a = "delete" THEN id ELSE deleteLoadingId
  /\ toggleLoadingId' = IF a = "toggle" THEN id ELSE toggleLoadingId

\* A handler that leaves a busy marker alone when it names a row already.
SetMarkerIfIdle(p, id, a) ==
  /\ actionLoading' = IF p \in {"Users", "Payments"}
                         /\ actionLoading = IdleAction
                      THEN [id |-> id, action |-> a] ELSE actionLoading
  /\ deleteLoadingId' = IF p \notin {"Users", "Payments"} /\ a = "delete"
                           /\ deleteLoadingId = Null
                        THEN id ELSE deleteLoadingId
  /\ toggleLoadingId' = IF a = "toggle" /\ toggleLoadingId = Null
                        THEN id ELSE toggleLoadingId

\* setActionLoading({id, action}) / setDeleteLoadingId(id) /
\* setToggleLoadingId(id) at the start of the handler.
SetMarker(p, id, a) ==
  /\ actionLoading' = IF p \in {"Users", "Payments"}
                      THEN [id |-> id, action |-> a] ELSE actionLoading
  /\ deleteLoadingId' = IF p \notin {"Users", "Payments"} /\ a = "delete"
                        THEN id ELSE deleteLoadingId
  /\ toggleLoadingId' = IF a = "toggle" THEN id ELSE toggleLoadingId

\* A handler whose finally block is missing.
KeepMarker(p, a) ==
  UNCHANGED <<actionLoading, deleteLoadingId, toggleLoadingId>>

\* The finally block of the handler.
ResetMarker(p, a) ==
  IF alive \/ ~GuardsMarkerReset(p)
  THEN /\ actionLoading' = IF p \in {"Users", "Payments"}
                           THEN IdleAction ELSE actionLoading
       /\ deleteLoadingId' = IF p \notin {"Users", "Payments"} /\ a = "delete"
                             THEN Null ELSE deleteLoadingId
       /\ toggleLoadingId' = IF a = "toggle" THEN Null ELSE toggleLoadingId
  ELSE UNCHANGED <<actionLoading, deleteLoadingId, toggleLoadingId>>

\* The handler runs up to its await: the marker is set and the request
\* leaves.  d is the dialog the user confirmed (IdleAction: none).
StartMutation(id, a, arg, d) ==
  /\ Len(muts) < MaxMut
  /\ Len(fetches) + Len(muts) < MaxFetch
  /\ SetMarker(pg, id, a)
  /\ muts' = Append(muts, [id |-> id, action |-> a, arg |-> arg,
                           resp |-> "none", dlg |-> d])

\* A click on a row control of the table.
Click(id, a) ==
  /\ alive
  /\ TableShown
  /\ HasRow(id)
  /\ a \in Actions(pg)
  /\ ControlEnabled(pg, a, StatusShown(id))
  /\ IF NeedsConfirm(pg, a)
     THEN /\ Len(dialogs) < MaxDialogs
          /\ dialogs' = Append(dialogs, [id |-> id, action |-> a])
          /\ UNCHANGED <<actionLoading, deleteLoadingId, toggleLoadingId,
                         muts>>
     ELSE /\ StartMutation(id, a,
                IF a = "toggle"
                THEN (IF StatusShown(id) = "ACTIVE" THEN "INACTIVE"
                      ELSE "ACTIVE")
                ELSE "-",
                IdleAction)
          /\ UNCHANGED dialogs
  /\ UNCHANGED <<pg, alive, items, loading, firstLoad, error, fetches,
                 notif>>
  /\ UNCHANGED <<lastResp, viewVars, formVars, authVars, payVars>>

\* OK in a confirmation dialog: onOk runs the handler.
ConfirmOk(i) ==
  /\ alive
  /\ i \in 1..Len(dialogs)
  /\ StartMutation(dialogs[i].id, dialogs[i].action, "-", dialogs[i])
  /\ dialogs' = Remove(dialogs, i)
  /\ UNCHANGED <<pg, alive, items, loading, firstLoad, error, fetches,
                 notif>>
  /\ UNCHANGED <<lastResp, viewVars, formVars, authVars, payVars>>

\* A Cancel that reports the cancellation and clears the busy markers.
CancelDialogReports(i) ==
  /\ alive
  /\ i \in 1..Len(dialogs)
  /\ dialogs' = Remove(dialogs, i)
  /\ notif' = "error"
  /\ actionLoading' = IdleAction
  /\ deleteLoadingId' = Null
  /\ toggleLoadingId' = Null
  /\ UNCHANGED <<pg, alive, items, loading, firstLoad, error, muts, fetches>>
  /\ UNCHANGED <<lastResp, viewVars, formVars, authVars, payVars>>

\* Cancel in a confirmation dialog: nothing is invoked.
CancelDialog(i) ==
  /\ alive
  /\ i \in 1..Len(dialogs)
  /\ dialogs' = Remove(dialogs, i)
  /\ UNCHANGED <<pg, alive, items, loading, firstLoad, error,
                 actionLoading, deleteLoadingId, toggleLoadingId, muts,
                 fetches, notif>>
  /\ UNCHANGED <<lastResp, viewVars, formVars, authVars, payVars>>

\* ---------------------------------------------------- the backend answers
\* The transport settles a mutation request with response r.
ServerAnswer(i, r) ==
  /\ i \in 1..Len(muts)
  /\ muts[i].resp = "none"
  /\ r \in {"ok", "okfalse", "http", "network"}
  /\ muts' = [muts EXCEPT ![i].resp = r]
  /\ UNCHANGED <<pg, alive, items, loading, firstLoad, error, actionLoading,
                 deleteLoadingId, toggleLoadingId, dialogs, fetches, notif>>
  /\ UNCHANGED <<lastResp, viewVars, formVars, authVars, payVars>>

\* ------------------------------------------------- mutation (after await)
\* A failure path that returns before finally.
OnFailureNoFinally(a) ==
  /\ notif' = "error"
  /\ UNCHANGED <<actionLoading, deleteLoadingId, toggleLoadingId>>
  /\ UNCHANGED <<loading, error, fetches>>

\* A failure path that reloads the list like the success path.
OnFailureReloads(a) ==
  /\ notif' = "error"
  /\ StartFetch(FALSE)
  /\ ResetMarker(pg, a)

\* The catch block (and the else branch of `if (ok)`), then finally.
OnFailure(a) ==
  /\ notif' = "error"
  /\ ResetMarker(pg, a)
  /\ UNCHANGED <<loading, error, fetches>>

\* The success path: notification, the reload, then finally - at once, or
\* after the awaited reload has settled.
OnSuccess(a) ==
  /\ notif' = "success"
  /\ StartFetch(AwaitsReload(pg))
  /\ IF AwaitsReload(pg)
     THEN UNCHANGED <<actionLoading, deleteLoadingId, toggleLoadingId>>
     ELSE ResetMarker(pg, a)

\* The handler resumes with the response of its request.
MutationDone(i) ==
  /\ i \in 1..Len(muts)
  /\ muts[i].resp # "none"
  /\ muts' = Remove(muts, i)
  /\ IF IsFailure(pg, muts[i].resp)
     THEN OnFailure(muts[i].action)
     ELSE OnSuccess(muts[i].action)
  /\ UNCHANGED <<pg, alive, items, firstLoad, dialogs>>
  /\ UNCHANGED <<lastResp, viewVars, formVars, authVars, payVars>>

\* --------------------------------------------------- fetch (after await)
\* The rest of the list fetch once the GET settles with outcome o:
\*   "ok" the array list, "nonarray" a 2xx body that is no array,
\*   "http" non-2xx, "network" transport failure, "timeout" the abort.
\* A fetch that merges the response into the list it holds.
FetchWritesMerging(p, o, list) ==
  LET failed == o \in {"http", "network", "timeout"}
      w == alive \/ ~GuardsFetchWrites(p)
  IN /\ items' = IF w THEN (IF o = "ok" THEN items \o list ELSE items)
                 ELSE items
     /\ loading' = IF w THEN FALSE ELSE loading
     /\ firstLoad' = IF w THEN FALSE ELSE firstLoad
     /\ error' = IF failed /\ (p = "Blogs" \/ (p = "Users" /\ alive))
                 THEN ErrMsg(p, o) ELSE error
     /\ notif' = IF failed /\ (p \in {"Payments", "Events", "Gallery"}
                               \/ (p = "Users" /\ alive))
                 THEN "loadError" ELSE notif

\* A fetch that rethrows its failure, so that the catch block of the
\* handler awaiting it reports a failed mutation.
FetchWritesRethrowing(p, o, list) ==
  LET failed == o \in {"http", "network", "timeout"}
      w == alive \/ ~GuardsFetchWrites(p)
  IN /\ items' = IF w THEN (IF o = "ok" THEN list ELSE <<>>) ELSE items
     /\ loading' = IF w THEN FALSE ELSE loading
     /\ firstLoad' = IF w THEN FALSE ELSE firstLoad
     /\ error' = IF failed /\ (p = "Blogs" \/ (p = "Users" /\ alive))
                 THEN ErrMsg(p, o) ELSE error
     /\ notif' = IF failed THEN "error" ELSE notif

FetchWrites(p, o, list) ==
  LET failed == o \in {"http", "network", "timeout"}
      w == alive \/ ~GuardsFetchWrites(p)
  IN /\ items' = IF w THEN (IF o = "ok" THEN list ELSE <<>>) ELSE items
     /\ loading' = IF w THEN FALSE ELSE loading
     /\ firstLoad' = IF w THEN FALSE ELSE firstLoad
     /\ error' = IF failed /\ (p = "Blogs" \/ (p = "Users" /\ alive))
                 THEN ErrMsg(p, o) ELSE error
     /\ notif' = IF failed /\ (p \in {"Payments", "Events", "Gallery"}
                               \/ (p = "Users" /\ alive))
                 THEN "loadError" ELSE notif

FetchSettle(i, o, list) ==
  /\ pg \in Pages
  /\ i \in 1..Len(fetches)
  /\ fetches' = Remove(fetches, i)
  /\ FetchWrites(pg, o, list)
  /\ IF fetches[i].awaited
     THEN ResetMarker(pg, "none")
     ELSE UNCHANGED <<actionLoading, deleteLoadingId, toggleLoadingId>>
  /\ lastResp' = [outcome |-> o, body |-> list,
                   awaited |-> fetches[i].awaited]
  /\ UNCHANGED <<pg, alive, dialogs, muts>>
  /\ UNCHANGED <<viewVars, formVars, authVars, payVars>>

\* The GET is answered (or fails in the transport).
FetchRespond(i, o, list) ==
  /\ o \in {"ok", "nonarray", "http", "network"}
  /\ list \in Bodies(pg, o)
  /\ FetchSettle(i, o, list)

\* The 15 s timer fires and aborts the GET.
FetchTimeout(i) ==
  /\ HasTimeout(pg)
  /\ FetchSettle(i, "timeout", <<>>)

\* ------------------------------------------------------------------- Next
Next ==
  \/ Refresh
  \/ Unmount
  \/ \E id \in Ids, a \in {"approve", "reject", "verify", "delete", "toggle"} :
       Click(id, a)
  \/ \E i \in 1..MaxDialogs : ConfirmOk(i)
  \/ \E i \in 1..MaxDialogs : CancelDialog(i)
  \/ \E i \in 1..MaxMut, r \in {"ok", "okfalse", "http", "network"} :
       ServerAnswer(i, r)
  \/ \E i \in 1..MaxMut : MutationDone(i)
  \/ \E i \in 1..MaxFetch, o \in {"ok", "nonarray", "http", "network"},
        list \in AllBodies : FetchRespond(i, o, list)
  \/ \E i \in 1..MaxFetch : FetchTimeout(i)

Spec == Init /\ [][Next]_vars

\* The timers of the event loop fire, and (the proviso of the mutation
\* life cycle) the transport answers every mutation request.
Fairness ==
  /\ \A i \in 1..MaxFetch : WF_vars(FetchTimeout(i))
  /\ \A i \in 1..MaxMut : WF_vars(\E r \in {"ok", "okfalse", "http", "network"} :
                                     ServerAnswer(i, r))
  /\ \A i \in 1..MaxMut : WF_vars(MutationDone(i))

FairSpec == Spec /\ Fairness

\* ======================================================================
\* The search box, the debounce and the table pages
\* ======================================================================
MaxRows == 2      \* rows of the list while the search is followed
MaxTimers == 2    \* debounce timeouts looked at for firing

\* Strings are sequences of characters.  A field that is null or undefined:
NoValue == <<"null">>

Raju == <<"R", "a", "j", "u">>

Meena == <<"M", "e", "e", "n", "a">>

\* The rows a list is drawn from: id, status and the searched fields in the
\* order of the blob.
SampleRows ==
  { [id |-> 1, status |-> "PENDING", fields |-> <<Raju, NoValue>>],
    [id |-> 2, status |-> "PENDING", fields |-> <<Meena, <<>>>>],
    [id |-> 3, status |-> "PENDING", fields |-> <<Raju, Meena>>] }

SampleLists ==
  UNION {[1..n -> SampleRows] : n \in 0..MaxRows}

\* The texts typed into the search box.
Terms ==
  { <<>>, <<" ">>, <<"r", "a", "j">>, <<"R", "A", "J">>,
    <<" ", "r", "a", "j", " ">>, <<"u", " ", "m">> }

\* The pages with a search box.
SearchPages == {"Users", "Blogs", "Events", "Gallery"}

\* The sizes the size changer offers.
PageSizes == {1, 2}

\* String.prototype.toLowerCase, on the characters in use.
LowerChar(c) ==
  CASE c = "R" -> "r"
    [] c = "A" -> "a"
    [] c = "J" -> "j"
    [] c = "M" -> "m"
    [] OTHER -> c

ToLower(str) == [k \in 1..Len(str) |-> LowerChar(str[k])]

\* String.prototype.trim.
RECURSIVE TrimLeft(_)
TrimLeft(str) ==
  IF str # <<>> /\ Head(str) = " " THEN TrimLeft(Tail(str)) ELSE str

RECURSIVE TrimRight(_)
TrimRight(str) ==
  IF str # <<>> /\ str[Len(str)] = " "
  THEN TrimRight(SubSeq(str, 1, Len(str) - 1))
  ELSE str

Trim(str) == TrimRight(TrimLeft(str))

\* String.prototype.includes.
Includes(str, q) ==
  \E k \in 0..(Len(str) - Len(q)) : SubSeq(str, k + 1, k + Len(q)) = q

\* x === null || x === undefined ? "" : String(x); Array.prototype.join
\* does the same to null and undefined.
FieldText(x) == IF x = NoValue THEN <<>> ELSE x

\* Array.prototype.join(" ").
RECURSIVE Join(_)
Join(fs) ==
  IF fs = <<>> THEN <<>>
  ELSE IF Len(fs) = 1 THEN FieldText(fs[1])
  ELSE FieldText(fs[1]) \o <<" ">> \o Join(Tail(fs))

\* A filter that compares the search text as typed.
FilterUntrimmed(list, term) ==
  LET q == ToLower(term)
  IN IF q = <<>> THEN list
     ELSE SelectSeq(list, LAMBDA r : Includes(ToLower(Join(r.fields)), q))

\* filteredUsers / filtered: the useMemo over the list and debouncedSearch.
Filter(list, term) ==
  LET q == ToLower(Trim(term))
  IN IF q = <<>> THEN list
     ELSE SelectSeq(list, LAMBDA r : Includes(ToLower(Join(r.fields)), q))

filtered == Filter(items, debouncedSearch)

\* The S No column: render: (_, __, index) => ... with index the position
\* of the row in the visible page.
Ordinal(p, pageNo, size, index) ==
  IF p = "Gallery" THEN index + 1 ELSE (pageNo - 1) * size + index + 1

\* The positions index of the rows the table shows on its current page.
VisibleIdx ==
  {i \in 0..(pageSize - 1) : (page - 1) * pageSize + i < Len(filtered)}

\* The pages the pager offers for page size ps.
PagesOffered(ps) ==
  {p \in 1..MaxRows : p = 1 \/ (p - 1) * ps < Len(filtered)}

\* onChange of the search box calls setPage(1) beside setSearch.
ResetsPage(p) == p \in {"Users", "Events"}

\* The page has loaded its list; the mount effect of useDebouncedValue has
\* armed its first timeout.
ViewInit ==
  /\ pg \in SearchPages
  /\ alive = TRUE
  /\ items \in SampleLists
  /\ loading = FALSE
  /\ firstLoad = FALSE
  /\ error = ""
  /\ actionLoading = IdleAction
  /\ deleteLoadingId = Null
  /\ toggleLoadingId = Null
  /\ dialogs = <<>>
  /\ muts = <<>>
  /\ fetches = <<>>
  /\ notif = "none"
  /\ lastResp = [outcome |-> "ok", body |-> items, awaited |-> FALSE]
  /\ search = <<>>
  /\ debouncedSearch = <<>>
  /\ timers = <<<<>>>>
  /\ page = 1
  /\ pageSize = MaxRows
  /\ FormIdle
  /\ AuthIdle
  /\ PayIdle

\* A search box whose effect has no cleanup: the old timeout stays armed.
TypeSearchNoCancel(term) ==
  /\ alive
  /\ term # search
  /\ search' = term
  /\ page' = IF ResetsPage(pg) THEN 1 ELSE page
  /\ timers' = Append(timers, term)
  /\ UNCHANGED <<listVars, debouncedSearch, pageSize, formVars, authVars, payVars>>

\* A search box that leaves the page of the table where it is.
TypeSearchKeepsPage(term) ==
  /\ alive
  /\ term # search
  /\ search' = term
  /\ page' = page
  /\ timers' = <<term>>
  /\ UNCHANGED <<listVars, debouncedSearch, pageSize, formVars, authVars, payVars>>

\* onChange of the search box, and the effect of useDebouncedValue that the
\* new value runs: the cleanup clears the old timeout, a new one is armed.
TypeSearch(term) ==
  /\ alive
  /\ term # search
  /\ search' = term
  /\ page' = IF ResetsPage(pg) THEN 1 ELSE page
  /\ timers' = <<term>>
  /\ UNCHANGED <<listVars, debouncedSearch, pageSize, formVars, authVars, payVars>>

\* A timeout that is dropped without publishing its value.
DebounceDropped(i) ==
  /\ i \in 1..Len(timers)
  /\ timers' = Remove(timers, i)
  /\ UNCHANGED <<listVars, search, debouncedSearch, page, pageSize, formVars,
                 authVars, payVars>>

\* The timeout fires: setDebounced(value) with the value it captured.
DebounceFires(i) ==
  /\ i \in 1..Len(timers)
  /\ debouncedSearch' = timers[i]
  /\ timers' = Remove(timers, i)
  /\ UNCHANGED <<listVars, search, page, pageSize, formVars, authVars, payVars>>

\* onChange of the pager: setPage(p); setPageSize(ps).
ChangePage(p, ps) ==
  /\ alive
  /\ ps \in PageSizes
  /\ p \in PagesOffered(ps)
  /\ <<p, ps>> # <<page, pageSize>>
  /\ page' = p
  /\ pageSize' = ps
  /\ UNCHANGED <<listVars, search, debouncedSearch, timers, formVars,
                 authVars, payVars>>

ViewNext ==
  \/ \E term \in Terms : TypeSearch(term)
  \/ \E i \in 1..MaxTimers : DebounceFires(i)
  \/ \E p \in 1..MaxRows, ps \in PageSizes : ChangePage(p, ps)
  \/ Unmount

ViewSpec == ViewInit /\ [][ViewNext]_vars

\* The timers of the event loop fire.
ViewFairness == \A i \in 1..MaxTimers : WF_vars(DebounceFires(i))

ViewFairSpec == ViewSpec /\ ViewFairness

\* ======================================================================
\* The create / edit form of Gallery, Events and Blogs, and the footer form
\* ======================================================================
MaxDay == 2       \* days a date picker offers (0 is the empty picker)

FormPages == {"Gallery", "Events", "Blogs", "Footer"}

Texts == {<<>>, <<" ">>, <<"x">>}

Http == <<"h", "t", "t", "p", ":", "/", "/", "a">>

Ftp == <<"f", "t", "p", ":", "/", "/", "a">>

Urls == {<<>>, <<"x">>, Ftp, Http}

Emails == {<<>>, <<" ">>, <<"a", "@", "b">>}

Days == 0..MaxDay

\* The fields of the form that its validation reads.
FormFields(p) ==
  CASE p = "Gallery" -> {"title", "imageUrl", "videoUrl"}
    [] p = "Events" -> {"title", "startDate", "endDate"}
    [] p = "Blogs" -> {"title", "description"}
    [] p = "Footer" -> {"address", "contactNo", "email", "facebook"}

\* What an input of the form can hold.
FieldValues(f) ==
  CASE f \in {"startDate", "endDate"} -> Days
    [] f = "facebook" -> Urls
    [] f = "email" -> Emails
    [] OTHER -> Texts

Digit(d) == <<"0", "1", "2", "3", "4", "5", "6", "7", "8", "9">>[d + 1]

\* What a row of the list or a body of the backend can hold in a field: a
\* text, the text of a date, or nothing.
RawValues(f) ==
  IF f \in {"startDate", "endDate"}
  THEN {<<Digit(d)>> : d \in 1..MaxDay} \cup {NoValue}
  ELSE FieldValues(f) \cup {NoValue}

Rows(p) ==
  {row \in [FormFields(p) -> UNION {RawValues(f) : f \in FormFields(p)}] :
     \A f \in FormFields(p) : row[f] \in RawValues(f)}

emptyForm(p) ==
  [f \in FormFields(p) |->
     IF f \in {"startDate", "endDate"} THEN 0 ELSE <<>>]

\* typeof v === "string" ? v : ""
safeText(v) == IF v = NoValue THEN <<>> ELSE v

\* toDayjs: null for a row without the date and when the window has no
\* dayjs (dj), else the day the text names.
toDayjs(v, dj) ==
  IF v = NoValue \/ ~dj THEN 0
  ELSE CHOOSE d \in 1..MaxDay : <<Digit(d)>> = v

\* The form openEdit builds from a row, and normalize from a footer body.
FormOf(p, row, dj) ==
  [f \in FormFields(p) |->
     IF f \in {"startDate", "endDate"} THEN toDayjs(row[f], dj)
     ELSE safeText(row[f])]

\* Every row and every field of some form page.
AllRows == UNION {Rows(p) : p \in FormPages \ {"Footer"}}

TextFields == {"title", "description", "imageUrl", "videoUrl", "address",
               "contactNo", "email", "facebook"}

DateFields == {"startDate", "endDate"}

\* The position of the first ":" of a text, 0 when it has none.
FirstColon(v) ==
  IF \E k \in 1..Len(v) : v[k] = ":"
  THEN CHOOSE k \in 1..Len(v) :
         v[k] = ":" /\ \A m \in 1..(k - 1) : v[m] # ":"
  ELSE 0

validateUrlOptional(value) ==
  LET v == Trim(safeText(value))
  IN IF v = <<>> THEN ""
     ELSE IF FirstColon(v) < 2 THEN "Enter a valid URL"
     ELSE IF SubSeq(v, 1, FirstColon(v)) \notin
               {<<"h", "t", "t", "p", ":">>, <<"h", "t", "t", "p", "s", ":">>}
     THEN "URL must start with http/https"
     ELSE ""

\* The rule { type: "email" }: no blank, and an "@" with text on both sides.
IsEmail(v) ==
  /\ \A k \in 1..Len(v) : v[k] # " "
  /\ \E k \in 2..(Len(v) - 1) : v[k] = "@"

\* validateForm of Gallery, Events and Blogs; the rules of the footer form
\* run by form.validateFields().  "" when the form is valid.
validateForm(p, f) ==
  CASE p = "Gallery" ->
         IF Trim(f.title) = <<>> THEN "Title is required"
         ELSE IF Trim(f.imageUrl) = <<>> /\ Trim(f.videoUrl) = <<>>
         THEN "Please add Image URL or Video URL (at least one)"
         ELSE ""
    [] p = "Events" ->
         IF Trim(f.title) = <<>> THEN "Title is required"
         ELSE IF f.startDate = 0 THEN "Start Date is required"
         ELSE IF f.endDate = 0 THEN "End Date is required"
         ELSE IF f.endDate < f.startDate
         THEN "End Date cannot be before Start Date"
         ELSE ""
    [] p = "Blogs" ->
         IF Trim(safeText(f.title)) = <<>> THEN "Title is required"
         ELSE IF Trim(safeText(f.description)) = <<>>
         THEN "Description is required"
         ELSE ""
    [] p = "Footer" ->
         IF f.address = <<>> THEN "Address is required"
         ELSE IF f.contactNo = <<>> THEN "Contact number is required"
         ELSE IF f.email = <<>> THEN "Email is required"
         ELSE IF ~IsEmail(f.email) THEN "Enter a valid email"
         ELSE validateUrlOptional(f.facebook)

\* The form of the footer page is rendered, and its fields are registered,
\* only when the page shows neither the skeleton nor the spinner.
FormRendered == pg # "Footer" \/ (~firstLoad /\ ~loading)

\* What the validation of the save handler answers: validateForm(), and on
\* the footer page form.validateFields(), which runs the rules of the
\* registered fields.
ValidationError == IF FormRendered THEN validateForm(pg, form) ELSE ""

\* The values the save handler reads: the form state, and on the footer page
\* the values of the registered fields.
Values ==
  IF FormRendered THEN form ELSE [f \in FormFields(pg) |-> NoValue]

\* The body of the save request: the texts trimmed.
Payload ==
  [f \in FormFields(pg) |->
     IF f \in DateFields THEN Values[f] ELSE Trim(safeText(Values[f]))]

HasModal(p) == p # "Footer"

\* The form page after it mounted: the list or the footer is being loaded.
FormInit ==
  /\ pg \in FormPages
  /\ alive = TRUE
  /\ items = <<>>
  /\ loading = TRUE
  /\ firstLoad = (pg = "Footer" \/ HasFirstLoad(pg))
  /\ error = ""
  /\ actionLoading = IdleAction
  /\ deleteLoadingId = Null
  /\ toggleLoadingId = Null
  /\ dialogs = <<>>
  /\ muts = <<>>
  /\ fetches = <<[superseded |-> FALSE, awaited |-> FALSE]>>
  /\ notif = "none"
  /\ lastResp = [outcome |-> "none", body |-> <<>>, awaited |-> FALSE]
  /\ form = emptyForm(pg)
  /\ modalOpen = FALSE
  /\ saveLoading = FALSE
  /\ saves = <<>>
  /\ ViewIdle
  /\ AuthIdle
  /\ PayIdle

\* The Add button.
openCreate ==
  /\ alive
  /\ HasModal(pg)
  /\ form' = emptyForm(pg)
  /\ modalOpen' = TRUE
  /\ UNCHANGED <<saveLoading, saves>>
  /\ UNCHANGED <<listVars, viewVars, authVars, payVars>>

\* The Edit button of a row.
openEdit(row, dj) ==
  /\ alive
  /\ HasModal(pg)
  /\ items # <<>>
  /\ row \in Rows(pg)
  /\ form' = FormOf(pg, row, dj)
  /\ modalOpen' = TRUE
  /\ UNCHANGED <<saveLoading, saves>>
  /\ UNCHANGED <<listVars, viewVars, authVars, payVars>>

\* onChange of an input: setForm((p) => ({...p, [f]: v})).  The inputs of
\* the modal are disabled while a save is in flight.
SetField(f, v) ==
  /\ alive
  /\ f \in FormFields(pg)
  /\ v \in FieldValues(f)
  /\ HasModal(pg) => (modalOpen /\ ~saveLoading)
  /\ form[f] # v
  /\ form' = [form EXCEPT ![f] = v]
  /\ UNCHANGED <<modalOpen, saveLoading, saves>>
  /\ UNCHANGED <<listVars, viewVars, authVars, payVars>>

\* An onCancel that closes the modal during a save as well.
CloseModalWhileSaving ==
  /\ alive
  /\ modalOpen
  /\ modalOpen' = FALSE
  /\ UNCHANGED <<form, saveLoading, saves>>
  /\ UNCHANGED <<listVars, viewVars, authVars, payVars>>

\* onCancel of the modal.
CloseModal ==
  /\ alive
  /\ modalOpen
  /\ ~saveLoading
  /\ modalOpen' = FALSE
  /\ UNCHANGED <<form, saveLoading, saves>>
  /\ UNCHANGED <<listVars, viewVars, authVars, payVars>>

\* onSave of the footer page: Modal.confirm is opened, nothing else.
onSave ==
  /\ alive
  /\ pg = "Footer"
  /\ ~saveLoading
  /\ Len(dialogs) < MaxDialogs
  /\ dialogs' = Append(dialogs, [id |-> Null, action |-> "save"])
  /\ UNCHANGED <<pg, alive, items, loading, firstLoad, error, actionLoading,
                 deleteLoadingId, toggleLoadingId, muts, fetches, notif,
                 lastResp>>
  /\ UNCHANGED <<viewVars, formVars, authVars, payVars>>

\* A save handler that sends the form without validating it.
SaveUnvalidated ==
  /\ alive
  /\ ~saveLoading
  /\ IF HasModal(pg) THEN modalOpen ELSE dialogs # <<>>
  /\ saveLoading' = TRUE
  /\ saves' = Append(saves, [page |-> pg, payload |-> Payload])
  /\ error' = IF pg = "Footer" THEN "" ELSE error
  /\ UNCHANGED <<form, modalOpen, dialogs, notif>>
  /\ UNCHANGED <<pg, alive, items, loading, firstLoad, actionLoading,
                 deleteLoadingId, toggleLoadingId, muts, fetches, lastResp>>
  /\ UNCHANGED <<viewVars, authVars, payVars>>

\* saveItem / saveEvent up to the request (OK of the modal), doSave up to
\* the request (OK of the confirmation).  A form that fails its validation
\* ends the handler: message.error, and on the footer page apiError and the
\* finally block as well.
Save ==
  /\ alive
  /\ ~saveLoading
  /\ IF HasModal(pg) THEN modalOpen /\ dialogs' = dialogs
     ELSE /\ dialogs # <<>>
          /\ dialogs' = IF ValidationError # "" THEN <<>> ELSE dialogs
  /\ IF ValidationError # ""
     THEN /\ notif' = ValidationError
          /\ error' = IF pg = "Footer" THEN ValidationError ELSE error
          /\ UNCHANGED <<saveLoading, saves>>
     ELSE /\ saveLoading' = TRUE
          /\ saves' = Append(saves, [page |-> pg, payload |-> Payload])
          /\ error' = IF pg = "Footer" THEN "" ELSE error
          /\ notif' = notif
  /\ UNCHANGED <<form, modalOpen>>
  /\ UNCHANGED <<pg, alive, items, loading, firstLoad, actionLoading,
                 deleteLoadingId, toggleLoadingId, muts, fetches, lastResp>>
  /\ UNCHANGED <<viewVars, authVars, payVars>>

\* The save request is answered and the handler runs to its end, or on the
\* footer page to await loadFooter().
SaveAnswer(i, r) ==
  /\ i \in 1..Len(saves)
  /\ r \in {"ok", "http", "network"}
  /\ saves' = Remove(saves, i)
  /\ IF r = "ok"
     THEN /\ Len(fetches) < MaxFetch
          /\ notif' = "success"
          /\ loading' = TRUE
          /\ fetches' = Append([k \in 1..Len(fetches) |->
                                  [fetches[k] EXCEPT !.superseded = TRUE]],
                               [superseded |-> FALSE,
                                awaited |-> (pg = "Footer")])
          /\ error' = IF pg \in {"Blogs", "Footer"} THEN "" ELSE error
          /\ modalOpen' = IF alive THEN FALSE ELSE modalOpen
          /\ form' = IF alive /\ HasModal(pg) THEN emptyForm(pg) ELSE form
          /\ saveLoading' = IF alive /\ HasModal(pg) THEN FALSE
                            ELSE saveLoading
          /\ dialogs' = dialogs
     ELSE /\ notif' = "error"
          /\ error' = IF alive /\ pg = "Footer" THEN "Save failed" ELSE error
          /\ saveLoading' = IF alive THEN FALSE ELSE saveLoading
          /\ dialogs' = IF pg = "Footer" THEN <<>> ELSE dialogs
          /\ UNCHANGED <<loading, fetches, modalOpen, form>>
  /\ UNCHANGED <<pg, alive, items, firstLoad, actionLoading,
                 deleteLoadingId, toggleLoadingId, muts, lastResp>>
  /\ UNCHANGED <<viewVars, authVars, payVars>>

\* The bodies the footer GET is answered with: {}, and a footer with every
\* field or with the address alone.
FooterBodies ==
  { [f \in FormFields("Footer") |-> NoValue],
    [f \in FormFields("Footer") |->
       IF f = "address" THEN <<"x">> ELSE NoValue],
    [f \in FormFields("Footer") |->
       CASE f = "email" -> <<"a", "@", "b">>
         [] f = "facebook" -> Http
         [] OTHER -> <<"x">>] }

\* loadFooter after its GET: the form is filled from the body, or emptied
\* when the load failed; a doSave that awaited it ends with its finally.
FooterLoaded(i, o, body) ==
  /\ pg = "Footer"
  /\ i \in 1..Len(fetches)
  /\ o \in {"ok", "http", "network", "timeout"}
  /\ fetches' = Remove(fetches, i)
  /\ form' = IF ~alive THEN form
             ELSE IF o = "ok" THEN FormOf(pg, body, TRUE)
             ELSE FormOf(pg, [f \in FormFields(pg) |-> NoValue], TRUE)
  /\ error' = IF ~alive \/ o = "ok" THEN error
              ELSE IF o = "timeout" THEN "Request cancelled"
              ELSE "Failed to load"
  /\ loading' = IF alive THEN FALSE ELSE loading
  /\ firstLoad' = IF alive THEN FALSE ELSE firstLoad
  /\ saveLoading' = IF alive /\ fetches[i].awaited THEN FALSE
                    ELSE saveLoading
  /\ dialogs' = IF fetches[i].awaited THEN <<>> ELSE dialogs
  /\ lastResp' = [outcome |-> o, body |-> <<>>,
                   awaited |-> fetches[i].awaited]
  /\ UNCHANGED <<pg, alive, items, actionLoading, deleteLoadingId,
                 toggleLoadingId, muts, notif>>
  /\ UNCHANGED <<modalOpen, saves>>
  /\ UNCHANGED <<viewVars, authVars, payVars>>

FormNext ==
  \/ openCreate
  \/ \E row \in AllRows, dj \in BOOLEAN : openEdit(row, dj)
  \/ \E f \in TextFields, v \in Texts \cup Urls \cup Emails : SetField(f, v)
  \/ \E f \in DateFields, v \in Days : SetField(f, v)
  \/ CloseModal
  \/ onSave
  \/ Save
  \/ \E i \in 1..MaxDialogs : CancelDialog(i)
  \/ \E i \in 1..MaxMut, r \in {"ok", "http", "network"} : SaveAnswer(i, r)
  \/ \E i \in 1..MaxFetch, o \in {"ok", "nonarray", "http", "network"},
        list \in AllBodies : FetchRespond(i, o, list)
  \/ \E i \in 1..MaxFetch : FetchTimeout(i)
  \/ \E i \in 1..MaxFetch, o \in {"ok", "http", "network", "timeout"},
        body \in FooterBodies : FooterLoaded(i, o, body)
  \/ Unmount

FormSpec == FormInit /\ [][FormNext]_vars

\* ======================================================================
\* The persistent storage, login, logout and the Authorization header
\* ======================================================================
MaxLogins == 1    \* login POSTs in flight at once
MaxConts == 1     \* handlers waiting to issue their follow-up request
MaxReq == 3       \* requests counted

NoToken == "none"  \* localStorage.getItem returns null

NoUser == <<>>      \* no "user" entry in the storage

Tokens == {"t1", "t2"}

AuthPages == {"Reports", "Users", "Blogs", "Events", "Gallery", "Footer",
              "Payments"}

\* token ? { Authorization: `Bearer ${token}` } : {}
AuthHeader(tok) == IF tok = NoToken THEN <<>> ELSE <<"Bearer", tok>>

\* JSON.stringify(data) of the login response that carried token t.
UserBlob(t) == <<"user", t>>

\* The page computes its header object once, when it mounts.
MemoisesHeaders(p) == p = "Footer"

\* The headers a handler of page p puts on a request it issues now, memo
\* being the header object its component memoised.
HeadersAt(p, memo) == IF MemoisesHeaders(p) THEN memo ELSE AuthHeader(token)

\* The page's handlers chain a second request after the first is answered
\* (the reload after a mutation or a save).
HasFollowUp(p) == p # "Reports"

Issue(p, memo) ==
  /\ lastReq.n < MaxReq
  /\ lastReq' = [page |-> p, auth |-> HeadersAt(p, memo), n |-> lastReq.n + 1]

\* A page under the admin layout after it mounted and issued its first GET;
\* the storage holds what the last login left, or nothing.
AuthInit ==
  /\ pg \in AuthPages
  /\ alive = TRUE
  /\ items = <<>>
  /\ loading = TRUE
  /\ firstLoad = (pg = "Footer" \/ HasFirstLoad(pg))
  /\ error = ""
  /\ actionLoading = IdleAction
  /\ deleteLoadingId = Null
  /\ toggleLoadingId = Null
  /\ dialogs = <<>>
  /\ muts = <<>>
  /\ fetches = <<>>
  /\ notif = "none"
  /\ lastResp = [outcome |-> "none", body |-> <<>>, awaited |-> FALSE]
  /\ ViewIdle
  /\ FormIdle
  /\ PayIdle
  /\ token \in Tokens \cup {NoToken}
  /\ user = IF token = NoToken THEN NoUser ELSE UserBlob(token)
  /\ memoHeaders = IF MemoisesHeaders(pg) THEN AuthHeader(token) ELSE <<>>
  /\ logins = 0
  /\ conts = <<>>
  /\ lastReq = [page |-> pg, auth |-> AuthHeader(token), n |-> 1]
  /\ authEv = IF token = NoToken THEN "none" ELSE "login"

\* A handler of the mounted page issues a request: a refresh, a mutation or
\* a save; with chain the handler issues a second request once the first is
\* answered.
IssueRequest(chain) ==
  /\ alive
  /\ Issue(pg, memoHeaders)
  /\ IF chain
     THEN /\ HasFollowUp(pg)
          /\ Len(conts) < MaxConts
          /\ conts' = Append(conts, [page |-> pg, memo |-> memoHeaders])
     ELSE conts' = conts
  /\ UNCHANGED <<token, user, memoHeaders, logins, authEv>>
  /\ UNCHANGED <<listVars, viewVars, formVars, payVars>>

\* The first request of a handler is answered; the handler issues its
\* follow-up (the reload), mounted or not, or ends without one.
FollowUp(i, ok) ==
  /\ i \in 1..Len(conts)
  /\ conts' = Remove(conts, i)
  /\ IF ok THEN Issue(conts[i].page, conts[i].memo) ELSE lastReq' = lastReq
  /\ UNCHANGED <<token, user, memoHeaders, logins, authEv>>
  /\ UNCHANGED <<listVars, viewVars, formVars, payVars>>

\* A logout that removes the token and leaves the user blob.
handleLogoutTokenOnly(here) ==
  /\ here => alive
  /\ token' = NoToken
  /\ user' = user
  /\ authEv' = "logout"
  /\ alive' = IF here THEN FALSE ELSE alive
  /\ timers' = IF here THEN <<>> ELSE timers
  /\ UNCHANGED <<memoHeaders, logins, conts, lastReq>>
  /\ UNCHANGED <<pg, items, loading, firstLoad, error, actionLoading,
                 deleteLoadingId, toggleLoadingId, dialogs, muts, fetches,
                 notif, lastResp>>
  /\ UNCHANGED <<search, debouncedSearch, page, pageSize, formVars, payVars>>

\* handleLogout of the layout: localStorage.clear() and navigate("/login"),
\* in this tab (the page unmounts) or in another tab of the same origin.
handleLogout(here) ==
  /\ here => alive
  /\ token' = NoToken
  /\ user' = NoUser
  /\ authEv' = "logout"
  /\ alive' = IF here THEN FALSE ELSE alive
  /\ timers' = IF here THEN <<>> ELSE timers
  /\ UNCHANGED <<memoHeaders, logins, conts, lastReq>>
  /\ UNCHANGED <<pg, items, loading, firstLoad, error, actionLoading,
                 deleteLoadingId, toggleLoadingId, dialogs, muts, fetches,
                 notif, lastResp>>
  /\ UNCHANGED <<search, debouncedSearch, page, pageSize, formVars, payVars>>

\* onFinish of the login page up to its POST.
onFinish ==
  /\ logins < MaxLogins
  /\ logins' = logins + 1
  /\ UNCHANGED <<token, user, memoHeaders, conts, lastReq, authEv>>
  /\ UNCHANGED <<listVars, viewVars, formVars, payVars>>

\* onFinish after its POST: a 2xx answer with a body stores the token and
\* the user blob; a rejection, or a body that cannot be read, stores
\* nothing.
LoginAnswer(r, t) ==
  /\ logins > 0
  /\ logins' = logins - 1
  /\ r \in {"ok", "nobody", "http", "network"}
  /\ IF r = "ok"
     THEN /\ token' = t
          /\ user' = UserBlob(t)
          /\ authEv' = "login"
     ELSE UNCHANGED <<token, user, authEv>>
  /\ UNCHANGED <<memoHeaders, conts, lastReq>>
  /\ UNCHANGED <<listVars, viewVars, formVars, payVars>>

\* A page under the admin layout mounts (the routes have no gate) and
\* issues its first GET.
Mount(p) ==
  /\ ~alive
  /\ p \in AuthPages
  /\ pg' = p
  /\ alive' = TRUE
  /\ memoHeaders' = IF MemoisesHeaders(p) THEN AuthHeader(token) ELSE <<>>
  /\ Issue(p, AuthHeader(token))
  /\ UNCHANGED <<token, user, logins, conts, authEv>>
  /\ UNCHANGED <<items, loading, firstLoad, error, actionLoading,
                 deleteLoadingId, toggleLoadingId, dialogs, muts, fetches,
                 notif, lastResp>>
  /\ UNCHANGED <<viewVars, formVars, payVars>>

AuthNext ==
  \/ \E chain \in BOOLEAN : IssueRequest(chain)
  \/ \E i \in 1..MaxConts, ok \in BOOLEAN : FollowUp(i, ok)
  \/ \E here \in BOOLEAN : handleLogout(here)
  \/ onFinish
  \/ \E r \in {"ok", "nobody", "http", "network"}, t \in Tokens :
       LoginAnswer(r, t)
  \/ \E p \in AuthPages : Mount(p)
  \/ Unmount

AuthSpec == AuthInit /\ [][AuthNext]_vars

\* ======================================================================
\* The payments page: the status filter and the event-payments modal
\* ======================================================================
MaxEvents == 2    \* events whose payments can be opened
MaxEventReqs == 2 \* by-event GETs in flight at once

StatusOptions == {"ALL", "PENDING_VERIFICATION", "VERIFIED", "REJECTED"}

\* The options the Select is changed to here.
StatusesTried == {"ALL", "PENDING_VERIFICATION"}

EventIds == 1..MaxEvents

\* The bodies the by-event endpoint can answer a GET for event e with.
EventBodies(e) == {<<>>, <<[id |-> 1, eventId |-> e]>>}

\* The payments page after it mounted: the effect has called
\* fetchPayments("ALL").
PayInit ==
  /\ pg = "Payments"
  /\ alive = TRUE
  /\ items = <<>>
  /\ loading = TRUE
  /\ firstLoad = TRUE
  /\ error = ""
  /\ actionLoading = IdleAction
  /\ deleteLoadingId = Null
  /\ toggleLoadingId = Null
  /\ dialogs = <<>>
  /\ muts = <<>>
  /\ fetches = <<[superseded |-> FALSE, awaited |-> FALSE, status |-> "ALL"]>>
  /\ notif = "none"
  /\ lastResp = [outcome |-> "none", body |-> <<>>, awaited |-> FALSE]
  /\ ViewIdle
  /\ FormIdle
  /\ AuthIdle
  /\ currentStatus = "ALL"
  /\ memoStatus = "ALL"
  /\ shownStatus = "none"
  /\ selectedEventId = Null
  /\ eventPayments = <<>>
  /\ eventPaymentsLoading = FALSE
  /\ eventPaymentsModalOpen = FALSE
  /\ eventReqs = <<>>

\* fetchPayments(status) up to its GET.
fetchPayments(status) ==
  /\ Len(fetches) < MaxFetch
  /\ loading' = TRUE
  /\ fetches' = Append([k \in 1..Len(fetches) |->
                          [fetches[k] EXCEPT !.superseded = TRUE]],
                       [superseded |-> FALSE, awaited |-> FALSE,
                        status |-> status])

\* The status the reload of mutation m asks for: the currentStatus of the
\* render whose closure runs.
ReloadStatus(m) == m.status

\* onChange of the status Select, and the effect that its new value runs.
SelectStatus(s) ==
  /\ alive
  /\ s \in StatusOptions
  /\ s # currentStatus
  /\ currentStatus' = s
  /\ page' = 1
  /\ memoStatus' = IF page # 1 THEN s ELSE memoStatus
  /\ fetchPayments(s)
  /\ UNCHANGED <<pg, alive, items, firstLoad, error, actionLoading,
                 deleteLoadingId, toggleLoadingId, dialogs, muts, notif,
                 lastResp>>
  /\ UNCHANGED <<search, debouncedSearch, timers, pageSize>>
  /\ UNCHANGED <<shownStatus, selectedEventId, eventPayments,
                 eventPaymentsLoading, eventPaymentsModalOpen, eventReqs>>
  /\ UNCHANGED <<formVars, authVars>>

\* The Refresh button: fetchPayments(currentStatus).
PayRefresh ==
  /\ alive
  /\ ~loading
  /\ Len(fetches) + Len(muts) < MaxFetch
  /\ fetchPayments(currentStatus)
  /\ UNCHANGED <<pg, alive, items, firstLoad, error, actionLoading,
                 deleteLoadingId, toggleLoadingId, dialogs, muts, notif,
                 lastResp>>
  /\ UNCHANGED <<viewVars, formVars, authVars, payVars>>

\* A row button and the OK of its confirmation: verifyPayment /
\* rejectPayment / deletePayment up to the request.  The handler is the one
\* the columns memo holds, with the currentStatus of the render that built
\* it; setActionLoading stores a new object, which makes the memo rebuild.
PayMutate(id, a) ==
  /\ alive
  /\ TableShown
  /\ HasRow(id)
  /\ a \in Actions(pg)
  /\ ControlEnabled(pg, a, StatusShown(id))
  /\ Len(muts) < MaxMut
  /\ Len(fetches) + Len(muts) < MaxFetch
  /\ SetMarker(pg, id, a)
  /\ muts' = Append(muts, [id |-> id, action |-> a, status |-> memoStatus])
  /\ memoStatus' = currentStatus
  /\ UNCHANGED <<pg, alive, items, loading, firstLoad, error, dialogs,
                 fetches, notif, lastResp>>
  /\ UNCHANGED <<currentStatus, shownStatus, selectedEventId, eventPayments,
                 eventPaymentsLoading, eventPaymentsModalOpen, eventReqs>>
  /\ UNCHANGED <<viewVars, formVars, authVars>>

\* The mutation request is answered and the handler runs to its end.
PayMutationDone(i, ok) ==
  /\ i \in 1..Len(muts)
  /\ muts' = Remove(muts, i)
  /\ IF ok
     THEN /\ notif' = "success"
          /\ fetchPayments(ReloadStatus(muts[i]))
     ELSE /\ notif' = "error"
          /\ UNCHANGED <<loading, fetches>>
  /\ ResetMarker(pg, muts[i].action)
  /\ memoStatus' = currentStatus
  /\ UNCHANGED <<pg, alive, items, firstLoad, error, dialogs, lastResp>>
  /\ UNCHANGED <<currentStatus, shownStatus, selectedEventId, eventPayments,
                 eventPaymentsLoading, eventPaymentsModalOpen, eventReqs>>
  /\ UNCHANGED <<viewVars, formVars, authVars>>

\* fetchPayments after its GET: the list is replaced, whatever status the
\* page shows by now.
PayFetchSettle(i, o, list) ==
  /\ i \in 1..Len(fetches)
  /\ fetches' = Remove(fetches, i)
  /\ FetchWrites(pg, o, list)
  /\ shownStatus' = fetches[i].status
  /\ lastResp' = [outcome |-> o, body |-> list, awaited |-> FALSE]
  /\ UNCHANGED <<pg, alive, actionLoading, deleteLoadingId, toggleLoadingId,
                 dialogs, muts>>
  /\ UNCHANGED <<currentStatus, memoStatus, selectedEventId, eventPayments,
                 eventPaymentsLoading, eventPaymentsModalOpen, eventReqs>>
  /\ UNCHANGED <<viewVars, formVars, authVars>>

PayFetchRespond(i, o, list) ==
  /\ o \in {"ok", "nonarray", "http", "network"}
  /\ list \in Bodies(pg, o)
  /\ PayFetchSettle(i, o, list)

PayFetchTimeout(i) == PayFetchSettle(i, "timeout", <<>>)

\* openEventPayments(item) up to its GET.
openEventPayments(e) ==
  /\ alive
  /\ TableShown
  /\ items # <<>>
  /\ ~eventPaymentsModalOpen
  /\ Len(eventReqs) < MaxEventReqs
  /\ selectedEventId' = e
  /\ eventPaymentsLoading' = TRUE
  /\ eventPayments' = <<>>
  /\ eventPaymentsModalOpen' = TRUE
  /\ eventReqs' = Append(eventReqs, e)
  /\ UNCHANGED <<currentStatus, memoStatus, shownStatus>>
  /\ UNCHANGED <<listVars, viewVars, formVars, authVars>>

\* onCancel of the event-payments modal.
CloseEventPayments ==
  /\ alive
  /\ eventPaymentsModalOpen
  /\ eventPaymentsModalOpen' = FALSE
  /\ UNCHANGED <<currentStatus, memoStatus, shownStatus, selectedEventId,
                 eventPayments, eventPaymentsLoading, eventReqs>>
  /\ UNCHANGED <<listVars, viewVars, formVars, authVars>>

\* openEventPayments after its GET.
EventAnswered(i, ok, body) ==
  /\ i \in 1..Len(eventReqs)
  /\ body \in EventBodies(eventReqs[i])
  /\ eventReqs' = Remove(eventReqs, i)
  /\ eventPayments' = IF ok THEN body ELSE <<>>
  /\ eventPaymentsLoading' = FALSE
  /\ notif' = IF ok THEN notif ELSE "loadError"
  /\ UNCHANGED <<pg, alive, items, loading, firstLoad, error, actionLoading,
                 deleteLoadingId, toggleLoadingId, dialogs, muts, fetches,
                 lastResp>>
  /\ UNCHANGED <<currentStatus, memoStatus, shownStatus, selectedEventId,
                 eventPaymentsModalOpen>>
  /\ UNCHANGED <<viewVars, formVars, authVars>>

PayNext ==
  \/ \E s \in StatusesTried : SelectStatus(s)
  \/ PayRefresh
  \/ \E id \in Ids, a \in {"verify", "reject", "delete"} : PayMutate(id, a)
  \/ \E i \in 1..MaxMut, ok \in BOOLEAN : PayMutationDone(i, ok)
  \/ \E i \in 1..MaxFetch, o \in {"ok", "nonarray", "http", "network"},
        list \in AllBodies : PayFetchRespond(i, o, list)
  \/ \E i \in 1..MaxFetch : PayFetchTimeout(i)
  \/ Unmount

PaySpec == PayInit /\ [][PayNext]_vars

\* The payments page with its list and the event-payments modal.
EventNext ==
  \/ PayRefresh
  \/ \E i \in 1..MaxFetch, o \in {"ok", "nonarray", "http", "network"},
        list \in AllBodies : PayFetchRespond(i, o, list)
  \/ \E i \in 1..MaxFetch : PayFetchTimeout(i)
  \/ \E e \in EventIds : openEventPayments(e)
  \/ CloseEventPayments
  \/ \E i \in 1..MaxEventReqs, ok \in BOOLEAN,
        body \in UNION {EventBodies(e) : e \in EventIds} :
       EventAnswered(i, ok, body)
  \/ Unmount

EventSpec == PayInit /\ [][EventNext]_vars

\* ======================================================================
\* Two rows of one list and their mutations
\* ======================================================================
RowIds == 1..MaxRows

\* The list after its first load: every row present, its controls enabled.
RowsInit ==
  /\ pg \in Pages
  /\ alive = TRUE
  /\ items = [i \in RowIds |->
               [id |-> i,
                status |-> CASE pg \in {"Users", "Payments"} -> PendingStatus(pg)
                             [] pg = "Blogs" -> "ACTIVE"
                             [] OTHER -> "PRESENT"]]
  /\ loading = FALSE
  /\ firstLoad = FALSE
  /\ error = ""
  /\ actionLoading = IdleAction
  /\ deleteLoadingId = Null
  /\ toggleLoadingId = Null
  /\ dialogs = <<>>
  /\ muts = <<>>
  /\ fetches = <<>>
  /\ notif = "none"
  /\ lastResp = [outcome |-> "ok", body |-> items, awaited |-> FALSE]
  /\ ViewIdle
  /\ FormIdle
  /\ AuthIdle
  /\ PayIdle

RowsNext ==
  \/ Refresh
  \/ Unmount
  \/ \E id \in RowIds, a \in {"approve", "reject", "verify", "delete", "toggle"} :
       Click(id, a)
  \/ \E i \in 1..MaxDialogs : ConfirmOk(i)
  \/ \E i \in 1..MaxDialogs : CancelDialog(i)
  \/ \E i \in 1..MaxMut, r \in {"ok", "okfalse", "http", "network"} :
       ServerAnswer(i, r)
  \/ \E i \in 1..MaxMut : MutationDone(i)
  \/ \E i \in 1..MaxFetch, o \in {"ok", "nonarray", "http", "network"},
        list \in AllBodies : FetchRespond(i, o, list)
  \/ \E i \in 1..MaxFetch : FetchTimeout(i)

RowsSpec == RowsInit /\ [][RowsNext]_vars

\* ======================================================================
\* Properties
\* ======================================================================
\* Step predicates shared by the properties below.
\* The handler of mutation i resumes with its response in this step.
HandlesResponse(i) ==
  /\ i \in 1..Len(muts)
  /\ muts[i].resp # "none"
  /\ muts' = Remove(muts, i)

\* The list fetch j settles (response or abort) in this step.
Settles(j) ==
  /\ j \in 1..Len(fetches)
  /\ fetches' = Remove(fetches, j)

\* The mutations the Confirmation Gate is specified for.
Gated == {"approve", "reject", "verify", "delete"}

\* The busy marker that action a uses is idle after the step.
MarkerIdleAfter(a) ==
  CASE pg \in {"Users", "Payments"} -> actionLoading' = IdleAction
    [] a = "toggle" -> toggleLoadingId' = Null
    [] OTHER -> deleteLoadingId' = Null

\* What a successful mutation does when its response is handled: the
\* success notification and exactly one new list fetch.
ReloadsOnce(i) ==
  /\ notif' = "success"
  /\ Len(fetches') = Len(fetches) + 1
  /\ fetches'[Len(fetches')].awaited = AwaitsReload(pg)

\* C1 (as stated): a mutation whose response is classified as success
\* starts exactly one list reload, with the success notification, and the
\* busy marker is idle when its handler has finished - at the response on
\* the pages that do not await the reload, at the end of the awaited
\* reload on Users.
C1_AsStated ==
  [][/\ \A i \in 1..Len(muts) :
          (/\ HandlesResponse(i)
           /\ muts[i].action \in Gated
           /\ ~IsFailure(pg, muts[i].resp)) =>
            /\ ReloadsOnce(i)
            /\ (~AwaitsReload(pg) => MarkerIdleAfter(muts[i].action))
      /\ \A j \in 1..Len(fetches) :
          (Settles(j) /\ fetches[j].awaited) => MarkerIdleAfter("none")
    ]_vars

\* C1 (amended): the same, the marker being idle at the end of the handler
\* when the page is still mounted then, or has no liveness flag (Payments).
C1_ReloadOnceAndIdle ==
  [][/\ \A i \in 1..Len(muts) :
          (/\ HandlesResponse(i)
           /\ muts[i].action \in Gated
           /\ ~IsFailure(pg, muts[i].resp)) =>
            /\ ReloadsOnce(i)
            /\ ((~AwaitsReload(pg) /\ (alive \/ pg = "Payments")) =>
                  MarkerIdleAfter(muts[i].action))
      /\ \A j \in 1..Len(fetches) :
          (Settles(j) /\ fetches[j].awaited /\ alive) =>
            MarkerIdleAfter("none")
    ]_vars

\* A Users mutation has gone through its success path to the end: the
\* success notification is up, no handler runs, the marker is idle.
C1_Witness ==
  /\ pg = "Users"
  /\ alive
  /\ notif = "success"
  /\ muts = <<>>
  /\ \A j \in 1..Len(fetches) : ~fetches[j].awaited
  /\ actionLoading = IdleAction

C3_FailureIffNon2xxOrSuccessFalse ==
  [][\A i \in 1..Len(muts) :
        HandlesResponse(i) =>
          ((muts[i].resp \in {"http", "network", "okfalse"})
             <=> (notif' = "error" /\ fetches' = fetches))
    ]_vars

\* C4 (as stated): every state-changing request in flight, the Blogs
\* toggle included, was issued by confirming a dialog for its item and
\* action.
C4_AsStated ==
  \A i \in 1..Len(muts) :
    muts[i].dlg = [id |-> muts[i].id, action |-> muts[i].action]

\* C4 (amended): every delete, approve, reject and verify request in flight
\* was issued by confirming a dialog opened for its item and action.
C4_ConfirmedBeforeRequest ==
  \A i \in 1..Len(muts) :
    muts[i].action \in Gated =>
      muts[i].dlg = [id |-> muts[i].id, action |-> muts[i].action]

\* A delete request is in flight, issued from its dialog.
C4_Witness ==
  \E i \in 1..Len(muts) :
    /\ muts[i].action = "delete"
    /\ muts[i].dlg = [id |-> muts[i].id, action |-> "delete"]

\* C5: no approve or reject request leaves the Users page for a user whose
\* row in the displayed list shows a status other than PENDING at that
\* moment.
C5_RequestOnlyForPending ==
  [][pg = "Users" =>
       \A id \in Ids, a \in {"approve", "reject"} :
         (Len(muts') = Len(muts) + 1
          /\ muts'[Len(muts')].id = id
          /\ muts'[Len(muts')].action = a
          /\ HasRow(id)) => StatusShown(id) = "PENDING"
    ]_vars

\* C6: no verify or reject request leaves the Payments page for a payment
\* whose row in the displayed list shows VERIFIED or REJECTED (anything but
\* PENDING_VERIFICATION) at that moment.
C6_RequestOnlyForPendingVerification ==
  [][pg = "Payments" =>
       \A id \in Ids, a \in {"verify", "reject"} :
         (Len(muts') = Len(muts) + 1
          /\ muts'[Len(muts')].id = id
          /\ muts'[Len(muts')].action = a
          /\ HasRow(id)) => StatusShown(id) = "PENDING_VERIFICATION"
    ]_vars

\* C7: once the page is unmounted no step writes a view-state variable
\* (items, loading, firstLoad, error, the busy markers).
C7_NoWriteAfterUnmount ==
  [][~alive => view' = view]_vars

\* C8: the response of a list fetch that a later-issued fetch has
\* superseded does not update items, error or loading.
C8_SupersededFetchWritesNothing ==
  [][\A j \in 1..Len(fetches) :
        (Settles(j) /\ fetches[j].superseded) =>
          UNCHANGED <<items, error, loading>>
    ]_vars

\* A busy marker is set.
MarkerBusy ==
  \/ actionLoading.id # Null
  \/ deleteLoadingId # Null
  \/ toggleLoadingId # Null

\* A mutation handler is between its start and the end of its finally.
HandlerRunning ==
  \/ muts # <<>>
  \/ \E j \in 1..Len(fetches) : fetches[j].awaited

\* C9: while the page stays mounted, a list fetch in flight leads to the
\* loading flag being false again, whether or not the server ever answers.
C9_FetchEndsLoading ==
  (alive /\ fetches # <<>>) ~> (~alive \/ ~loading)

\* C10: on a mounted page a busy marker is never set while no mutation
\* handler runs, and each marker that is set leads to that marker idle (or
\* to the unmount) once the transport has answered - on the success path
\* and on each failure path.
C10_MarkerReturnsToIdle ==
  /\ [](alive /\ ~HandlerRunning => ~MarkerBusy)
  /\ (actionLoading.id # Null) ~> (actionLoading.id = Null \/ ~alive)
  /\ (deleteLoadingId # Null) ~> (deleteLoadingId = Null \/ ~alive)
  /\ (toggleLoadingId # Null) ~> (toggleLoadingId = Null \/ ~alive)

\* A Users mutation is on its success path, awaiting the reload, with the
\* marker still set.
C10_Witness ==
  /\ alive
  /\ actionLoading.id # Null
  /\ muts = <<>>
  /\ \E j \in 1..Len(fetches) : fetches[j].awaited

\* The ActionTokens shown as in progress: one per busy marker.
NumBusy ==
  (IF actionLoading.id # Null THEN 1 ELSE 0)
  + (IF deleteLoadingId # Null THEN 1 ELSE 0)
  + (IF toggleLoadingId # Null THEN 1 ELSE 0)

\* C11 (as stated): on every mounted page at most one ActionToken (item id,
\* action kind) is marked as in progress.
C11_AsStated ==
  alive => NumBusy <= 1

\* C11 (amended): on Users, Payments, Events and Gallery at most one
\* ActionToken is marked as in progress, even with two mutations in flight;
\* Blogs keeps one marker for deletes and one for toggles, so at most one
\* delete and one toggle are marked there.
C11_OneTokenPerMarker ==
  alive => NumBusy <= (IF pg = "Blogs" THEN 2 ELSE 1)

\* Two mutations of the Users page are in flight and one token is shown.
C11_Witness ==
  /\ alive
  /\ pg = "Users"
  /\ Len(muts) = 2
  /\ NumBusy = 1

\* The rows of list at the positions in S, in list order.
RECURSIVE Pick(_, _)
Pick(list, S) ==
  IF list = <<>> THEN <<>>
  ELSE (IF 1 \in S THEN <<Head(list)>> ELSE <<>>)
       \o Pick(Tail(list), {k - 1 : k \in S \ {1}})

\* q occurs in str as a run of consecutive characters.
HasPart(str, q) ==
  \E i \in 1..(Len(str) + 1) : \E j \in (i - 1)..Len(str) :
    SubSeq(str, i, j) = q

\* The searched fields of row r joined by single spaces, null and undefined
\* as the empty string, in lower case.
Blob(r) == ToLower(Join(r.fields))

\* The texts that are str without its leading and trailing spaces.
TrimmedForms(str) ==
  { SubSeq(str, a + 1, Len(str) - b) :
      <<a, b>> \in { x \in (0..Len(str)) \X (0..Len(str)) :
                       /\ x[1] + x[2] <= Len(str)
                       /\ \A k \in 1..x[1] : str[k] = " "
                       /\ \A k \in (Len(str) - x[2] + 1)..Len(str) :
                            str[k] = " "
                       /\ (x[1] + x[2] < Len(str) =>
                             /\ str[x[1] + 1] # " "
                             /\ str[Len(str) - x[2]] # " ") } }

\* C12 (as stated): the filtered view is the list of the items, in list
\* order, whose searched-field concatenation contains the debounced search
\* term q case-insensitively (null fields as the empty string); the empty q
\* gives the whole list.
C12_AsStated ==
  filtered = Pick(items, {k \in 1..Len(items) :
                            HasPart(Blob(items[k]), ToLower(debouncedSearch))})

\* C12 (amended): the same with q stripped of its leading and trailing
\* spaces before the comparison, the fields being joined by single spaces;
\* a q that is empty after the stripping gives the whole list.
C12_FilterByTrimmedTerm ==
  /\ TrimmedForms(debouncedSearch) # {}
  /\ \A q \in TrimmedForms(debouncedSearch) :
       filtered = Pick(items, {k \in 1..Len(items) :
                                 HasPart(Blob(items[k]), ToLower(q))})

\* The search term raj over [Raju, Meena] shows [Raju].
C12_Witness ==
  /\ debouncedSearch = <<"r", "a", "j">>
  /\ Len(items) = 2
  /\ items[1].fields[1] = Raju
  /\ items[2].fields[1] = Meena
  /\ items[2].fields[2] = <<>>
  /\ filtered = <<items[1]>>

\* C13: the ordinal shown for the row at position i of the visible page is
\* (page-1)*pageSize + i + 1, on every paginated list page.
C13_OrdinalCountsFromPageStart ==
  \A i \in VisibleIdx :
    Ordinal(pg, page, pageSize, i) = (page - 1) * pageSize + i + 1

\* C14: debouncedSearch changes only in a step in which a debounce timeout
\* fires, and to the search text of that moment; every change of the search
\* text leaves the timeout of the new text as the only one pending.
C14_PublishedOnlyByTimer ==
  [][/\ (debouncedSearch' # debouncedSearch =>
           /\ Len(timers') < Len(timers)
           /\ search' = search
           /\ debouncedSearch' = search)
      /\ (search' # search => timers' = <<search'>>)
    ]_vars

\* A search text typed after another one has been published.
C14_Witness ==
  /\ alive
  /\ search = <<"R", "A", "J">>
  /\ debouncedSearch = <<"R", "A", "J">>
  /\ timers = <<>>

\* C15: on a mounted page a search text that stays as it is leads to
\* debouncedSearch being that text, the filtered view then being the filter
\* of the items by the search text.
C15_DebouncedCatchesUp ==
  \A term \in Terms :
    (alive /\ search = term)
      ~> (\/ ~alive
          \/ search # term
          \/ (debouncedSearch = term /\ filtered = Filter(items, search)))

\* The debounce has caught up with a search text that filters a row out.
C15_Witness ==
  /\ alive
  /\ search # <<>>
  /\ debouncedSearch = search
  /\ Len(filtered) < Len(items)

\* The list fetch handled in this step failed, timed out or was cancelled.
FetchFailed == lastResp'.outcome \in {"http", "network", "timeout"}

\* C16: whenever the response of a list fetch is applied, items becomes
\* exactly the array of the response, whatever it held before, and the empty
\* list when the body is no array (or the fetch failed).
C16_AppliedResponseReplaces ==
  [][\A j \in 1..Len(fetches) :
        (Settles(j) /\ (alive \/ ~GuardsFetchWrites(pg))) =>
          items' = (IF lastResp'.outcome = "ok" THEN lastResp'.body
                    ELSE <<>>)
    ]_vars

\* The reload after a mutation was answered with a body that is no array:
\* the row the mutation was about is gone from the list.
C16_Witness ==
  /\ alive
  /\ notif = "success"
  /\ fetches = <<>>
  /\ lastResp.outcome = "nonarray"
  /\ items = <<>>

SaveRejected ==
  /\ alive
  /\ ~saveLoading
  /\ pg \in FormPages
  /\ ValidationError # ""
  /\ notif' = ValidationError
  /\ notif # notif' \/ dialogs # dialogs'

\* C17: a save handler never leaves with a request for a form that fails its
\* validation - the request list grows only for a valid form - and the step
\* in which the handler rejects the form shows the validation message and
\* leaves the form contents, the open modal and the requests in flight as
\* they were.
C17_InvalidSaveSendsNothing ==
  [][/\ (Len(saves') > Len(saves)) => ValidationError = ""
     /\ SaveRejected =>
          /\ saves' = saves
          /\ form' = form
          /\ modalOpen' = modalOpen
          /\ fetches' = fetches
          /\ muts' = muts
    ]_vars

\* The modal is still open over an invalid form whose validation message is
\* shown, and nothing was sent.
C17_Witness ==
  /\ alive
  /\ pg = "Gallery"
  /\ modalOpen
  /\ Trim(form.title) # <<>>
  /\ ValidationError # ""
  /\ notif = ValidationError
  /\ saves = <<>>
  /\ ~saveLoading

\* C19: every request carries Authorization: Bearer t exactly when token t
\* is in the storage at the moment the request is issued, and no
\* Authorization header when the storage holds no token.
C19_HeaderFollowsStorage ==
  [][lastReq' # lastReq => lastReq'.auth = AuthHeader(token')]_vars

\* C20: once a logout has cleared the storage, neither the token nor the
\* user blob is there until a successful login stores both; the storage
\* changes in no other step, and a login stores the two together.
C20_ClearedUntilLogin ==
  /\ authEv = "logout" => (token = NoToken /\ user = NoUser)
  /\ authEv = "login" => (token # NoToken /\ user = UserBlob(token))

\* After a logout a login is under way and a handler of the page left
\* behind has still to issue its follow-up request.
C20_Witness ==
  /\ authEv = "logout"
  /\ token = NoToken
  /\ user = NoUser
  /\ logins > 0
  /\ conts # <<>>

\* Dialog i closes in this step and its onOk closure is not invoked: no
\* request leaves.
Cancelled(i) ==
  /\ i \in 1..Len(dialogs)
  /\ dialogs' = Remove(dialogs, i)
  /\ muts' = muts
  /\ saves' = saves

\* C21: a step that cancels a confirmation dialog sends no request, sets no
\* busy marker, shows no notification and leaves items, the loading state,
\* the page and the search state as they were.
C21_CancelInvokesNothing ==
  [][\A i \in 1..MaxDialogs :
        Cancelled(i) =>
          /\ fetches' = fetches
          /\ actionLoading' = actionLoading
          /\ deleteLoadingId' = deleteLoadingId
          /\ toggleLoadingId' = toggleLoadingId
          /\ notif' = notif
          /\ items' = items
          /\ loading' = loading
          /\ error' = error
          /\ UNCHANGED <<viewVars, formVars>>
    ]_vars

\* A delete dialog is open on a mounted Users page while a request for a
\* row is in flight and its marker is set: Cancel can be pressed here, and
\* there is a marker, a list and a request for it to disturb.
C21_Witness ==
  /\ alive
  /\ pg = "Users"
  /\ Len(dialogs) = 1
  /\ dialogs[1].action = "delete"
  /\ Len(muts) = 1
  /\ actionLoading = [id |-> muts[1].id, action |-> muts[1].action]
  /\ items # <<>>

\* The busy marker that a mutation of kind a uses on page p, as a row id.
MarkerRow(p, a) ==
  IF p \in {"Users", "Payments"} THEN actionLoading.id
  ELSE IF a = "toggle" THEN toggleLoadingId
  ELSE deleteLoadingId

\* C22: the marker is one slot per kind: a handler that starts writes its
\* own row into it whatever the slot held, so with a second mutation
\* started on another row the slot stops naming the first row although the
\* first row's request is still in flight.
C22_SlotIsOverwritten ==
  [][Len(muts') > Len(muts) =>
       LET m == muts'[Len(muts')]
       IN /\ (pg \in {"Users", "Payments"}) =>
               actionLoading' = [id |-> m.id, action |-> m.action]
          /\ (pg \notin {"Users", "Payments"} /\ m.action = "delete") =>
               deleteLoadingId' = m.id
          /\ (m.action = "toggle") => toggleLoadingId' = m.id
    ]_vars

\* The first row's request is still in flight and unanswered while the
\* marker of its kind names the second row.
C22_Witness ==
  /\ alive
  /\ Len(muts) = 2
  /\ muts[1].id # muts[2].id
  /\ muts[1].resp = "none"
  /\ (pg \in {"Users", "Payments"} \/ muts[1].action = muts[2].action)
  /\ MarkerRow(pg, muts[1].action) = muts[2].id

\* C23: on Users and Events a step that changes the search text sets page
\* to 1 and leaves the debounced text for a later step; a step that changes
\* the page size alone sets page to a page the pager offers for the new
\* size, which need not be 1.
C23_SearchResetsPageSizeDoesNot ==
  [][/\ (pg \in {"Users", "Events"} /\ search' # search) =>
          /\ page' = 1
          /\ debouncedSearch' = debouncedSearch
          /\ pageSize' = pageSize
     /\ (pageSize' # pageSize) =>
          /\ search' = search
          /\ page' \in {q \in 1..MaxRows :
                          q = 1 \/ (q - 1) * pageSize' < Len(filtered)}
    ]_vars

\* On Users, after a search that was typed and published (page went to 1),
\* the page size is no longer the initial one and the table stands on its
\* second page.
C23_Witness ==
  /\ alive
  /\ pg = "Users"
  /\ search # <<>>
  /\ debouncedSearch = search
  /\ pageSize # MaxRows
  /\ page = 2

\* Math.ceil(n / size).
CeilDiv(n, size) == (n + size - 1) \div size

\* The last page the pager offers for the filtered list.
LastPage == IF CeilDiv(Len(filtered), pageSize) > 1
            THEN CeilDiv(Len(filtered), pageSize) ELSE 1

\* C24: in every state the page used for the S.No column is at most
\* max(1, ceil(|filtered| / pageSize)).
C24_PageWithinFilteredList == page <= LastPage

\* C25: on a mounted page the loading flag is true in every state in which
\* a list fetch of the page is in flight.
C25_LoadingWhileFetching == (alive /\ fetches # <<>>) => loading

\* C26: on a mounted Users or Blogs page with no list fetch in flight, the
\* error text is non-empty exactly when the list fetch that completed last
\* failed.
C26_ErrorIffLastFetchFailed ==
  (pg \in {"Users", "Blogs"} /\ alive /\ fetches = <<>>
     /\ lastResp.outcome # "none") =>
    (error # "" <=> lastResp.outcome \in {"http", "network", "timeout"})

\* C27: on the mounted payments page with no payments fetch in flight, the
\* list shown is the answer to a fetch issued with the status selected now.
C27_ListIsForCurrentStatus ==
  (alive /\ fetches = <<>> /\ shownStatus # "none") =>
    shownStatus = currentStatus

\* C28: while the event-payments modal is open and not loading, every row
\* it shows belongs to the selected event.
C28_RowsAreForSelectedEvent ==
  (alive /\ eventPaymentsModalOpen /\ ~eventPaymentsLoading) =>
    \A k \in 1..Len(eventPayments) :
      eventPayments[k].eventId = selectedEventId

\* C29: on the mounted Gallery and Events pages the modal goes from open to
\* closed only by Cancel with no save in flight (form and requests
\* untouched) or by the successful answer to the save (form reset, one list
\* reload started); a failed answer leaves the modal and the form as they
\* were.
C29_ModalClosesByCancelOrSavedOnly ==
  [][(alive /\ pg \in {"Gallery", "Events"}) =>
       /\ (modalOpen /\ ~modalOpen') =>
            \/ /\ ~saveLoading
               /\ saves = <<>>
               /\ UNCHANGED <<form, saves, fetches, notif>>
            \/ /\ Len(saves') = Len(saves) - 1
               /\ notif' = "success"
               /\ form' = emptyForm(pg)
               /\ Len(fetches') = Len(fetches) + 1
       /\ (Len(saves') = Len(saves) - 1 /\ notif' = "error") =>
            /\ modalOpen' = modalOpen
            /\ form' = form]_vars

C29_Witness ==
  /\ alive
  /\ pg \in {"Gallery", "Events"}
  /\ ~modalOpen
  /\ ~saveLoading
  /\ notif = "success"
  /\ form = emptyForm(pg)
  /\ fetches # <<>>
  /\ loading

\* C30: every PUT of the footer page carries an address, a contact number
\* and an email that are not empty.
C30_PutCarriesRequiredFields ==
  \A k \in 1..Len(saves) :
    saves[k].page = "Footer" =>
      /\ saves[k].payload.address # <<>>
      /\ saves[k].payload.contactNo # <<>>
      /\ saves[k].payload.email # <<>>

====
